---- MODULE Spec2Model ----
(***************************************************************************)
(* Budgeted media compression: zip.py (still images, 1 MiB budget) and     *)
(* zip_video.py (mp4 / gif, 3 MiB budget).                                 *)
(*                                                                         *)
(* Three programs are modelled, each with its own specification:           *)
(*   SpecPC    one call of zip.py:_progressive_compress (FairSpecPC: the   *)
(*             same, the run never stopping while it has a next step)      *)
(*   SpecZip   zip.py: process_folder(".") or one call of compress_image   *)
(*   SpecVideo zip_video.py: scan_and_compress(".")                        *)
(* SpecResize is SpecPC and SpecZip together (both resize loops).          *)
(*                                                                         *)
(* The encoders are outside the model: an encoder call yields any length   *)
(* at or just over the budget, or fails.                                   *)
(*                                                                         *)
(* A path is a sequence of strings, the stem followed by its dotted        *)
(* suffixes: "a.mp4.tmp.mp4" is <<"a", ".mp4", ".tmp", ".mp4">>.           *)
(* Storage is a function from the paths that exist to their content.       *)
(***************************************************************************)
EXTENDS Integers, Sequences, FiniteSets, TLC

VARIABLES
    pc,         \* control position of the running program
    fs,         \* storage: existing path -> file content
    todo,       \* file names of the os.walk listing not yet visited
    skipped,    \* files the scanner found within budget: path -> content then
    file_path,  \* argument of compress_image / compress_video / compress_gif
    img,        \* compress_image: the decoded image
    ci_data,    \* compress_image: `data`
    out_path,   \* compress_image: path being written (file_path, webp_path, new_path)
    rm_orig,    \* compress_image: whether os.remove(file_path) follows the write
    allow_webp, \* the module global ALLOW_PNG_TO_WEBP
    work,       \* size of `work`, the buffer being resized (_progressive_compress,
                \* or the alpha-PNG loop of compress_image; never both at once)
    args,       \* _progressive_compress: fmt, initial_quality, min_quality, quality_step
    q,          \* _progressive_compress: `q`
    data,       \* _progressive_compress: `data`
    ret,        \* value returned by the last finished _progressive_compress call
    gaveUp,     \* whether that call returned from the cannot-shrink branch
    last,       \* buffer produced by the most recent encoder call
    seen,       \* sizes the current working buffer has had since it was copied
    nprobes,    \* encoder calls made by the current _progressive_compress run
    probed,     \* the (quality, size) pairs those calls were made with
    kont,       \* where the caller of _progressive_compress resumes on return
    onerr,      \* where an exception raised in the current try block lands
    ci_kont,    \* where the caller of compress_image resumes
    crf,        \* compress_video: `crf`
    quality,    \* compress_gif: `quality`
    nenc,       \* encoder rounds of the current compress_video / compress_gif run
    enc_failed  \* whether an encoder call of the current video / gif run has failed

vars == <<pc, fs, todo, skipped, file_path, img, ci_data, out_path, ci_kont,
          rm_orig, allow_webp, work, args, q, data, ret, gaveUp, last, seen,
          nprobes, probed, kont, onerr, crf, quality, nenc, enc_failed>>

pcVars == <<work, args, q, data, ret, gaveUp, last, seen, nprobes, probed,
           kont, onerr>>
ciVars == <<file_path, img, ci_data, out_path, rm_orig, allow_webp, ci_kont>>
scanVars == <<todo, skipped>>
videoVars == <<crf, quality, nenc, enc_failed>>

----------------------------------------------------------------------------
(* Program constants *)

TARGET_SIZE == 1048576
MIN_QUALITY == 20
QUALITY_STEP == 5
\* DOWNSCALE_RATIO = 0.9 as the fraction DOWNSCALE_NUM / DOWNSCALE_DEN
DOWNSCALE_NUM == 9
DOWNSCALE_DEN == 10
INITIAL_QUALITY == 95
GIVEUP_QUALITY == 10

\* zip_video.py (its own TARGET_SIZE, 3 MiB)
TARGET_SIZE_V == 3145728
CRF_START == 28
CRF_CAP == 40
CRF_STEP == 2
GIF_QUALITY_START == 80
GIF_QUALITY_FLOOR == 10
GIF_QUALITY_STEP == 10

(* Bounds of the model *)

MaxW == 7
MaxH == 6
MaxSide == 3
MaxFiles == 2
\* cap of the encoder-call counter of one _progressive_compress run; the runs
\* of the sizes above stay below it (at most 19 calls at each of 5 sizes,
\* and one more)
MaxProbes == 128

----------------------------------------------------------------------------
(* Values *)

Max(a, b) == IF a >= b THEN a ELSE b
Min(a, b) == IF a <= b THEN a ELSE b

\* A byte buffer produced by an encoder call: its length and the call's inputs.
Buf(len, fmt, hasq, qq, size) ==
    [len |-> len, fmt |-> fmt, hasq |-> hasq, q |-> qq, size |-> size]

NoBuf == Buf(0, "", FALSE, 0, <<0, 0>>)

\* What an encoder call was made with: the quality (0 for a format without
\* one) and the dimensions of the buffer.
ProbeKey(b) == <<b.hasq, b.q, b.size>>

\* Content of a stored file: its length, its container format and, for the
\* output of a video or gif round, the crf / quality of that round.
\* kind "orig": as found before the program ran; "enc": a complete encoder
\* output; "partial": truncated or half written.
File(kind, src, len, fmt, param) ==
    [kind |-> kind, src |-> src, len |-> len, fmt |-> fmt, param |-> param]

OrigFile(p, len) == File("orig", p, len, "", 0)

NoPath == <<>>
NoSize == <<-1, -1>>
NoImg == [size |-> <<0, 0>>, alpha |-> FALSE, format |-> ""]
NoArgs == [fmt |-> "", initial_quality |-> 0, min_quality |-> 0, quality_step |-> 0]

\* Lengths an encoder call may produce, and lengths of the files found.
ProbeSizes == {TARGET_SIZE, TARGET_SIZE + 1}
VideoSizes == {TARGET_SIZE_V, TARGET_SIZE_V + 1}
\* Lengths of a file an encoder left half written
PartialSizes == {0, TARGET_SIZE_V + 1}

----------------------------------------------------------------------------
(* zip.py: pure helpers *)

_format_supports_quality(fmt) ==
    fmt \in {"jpeg", "jpg", "webp", "avif", "heif", "heic", "jxl"}

\* str.lower() on the format names in use
Lower(fmt) ==
    CASE fmt = "JPEG" -> "jpeg"
      [] fmt = "WEBP" -> "webp"
      [] fmt = "PNG" -> "png"
      [] fmt = "BMP" -> "bmp"
      [] OTHER -> fmt

\* int(x * downscale_ratio) for x >= 0; the float product truncates to
\* floor(9x/10) for every x below 2*10^6 (and far beyond).
ScaleAxis(x) == (x * DOWNSCALE_NUM) \div DOWNSCALE_DEN

\* NewSize with a seeded fault: the two axes transposed
NewSize_Swapped(size) == <<Max(1, ScaleAxis(size[2])), Max(1, ScaleAxis(size[1]))>>

\* new_size = (max(1, int(w * ratio)), max(1, int(h * ratio)))
NewSize(size) == <<Max(1, ScaleAxis(size[1])), Max(1, ScaleAxis(size[2]))>>

\* ScaleFloor with a seeded fault: the cannot-shrink test lost
ScaleFloor_Never(size) == FALSE

\* new_size == work.size or min(new_size) <= 1
ScaleFloor(size) ==
    \/ NewSize(size) = size
    \/ Min(NewSize(size)[1], NewSize(size)[2]) <= 1

\* Fits with a seeded fault: strict comparison
Fits_Strict(len) == len < TARGET_SIZE

\* len(data) <= TARGET_SIZE
Fits(len) == len <= TARGET_SIZE

\* RampStops with a seeded fault: the floor test strict
RampStops_Late(len, qq, minq) == Fits(len) \/ qq < minq

\* the ramp's exit test: len(data) <= TARGET_SIZE or q <= min_quality
RampStops(len, qq, minq) == Fits(len) \/ qq <= minq

\* NextQ with a seeded fault: the step added
NextQ_Up(qq, step) == qq + step

\* q -= quality_step
NextQ(qq, step) == qq - step

\* q = max(min_quality, 10)
GiveUpQ(minq) == Max(minq, GIVEUP_QUALITY)

----------------------------------------------------------------------------
(* zip.py: _progressive_compress *)

\* lines 48-56: one round of the quality ramp: encode at q, then return the
\* data, leave the ramp, or step q down.
PC_QualityProbe ==
    /\ pc = "pc_probe"
    /\ nprobes < MaxProbes
    /\ _format_supports_quality(Lower(args.fmt))
    /\ \E len \in ProbeSizes :
         LET d == Buf(len, args.fmt, TRUE, q, work) IN
         /\ data' = d
         /\ last' = d
         /\ nprobes' = nprobes + 1
         /\ probed' = probed \cup {ProbeKey(d)}
         /\ IF RampStops(len, q, args.min_quality)
            THEN IF Fits(len)
                 THEN /\ ret' = d
                      /\ gaveUp' = FALSE
                      /\ pc' = kont
                      /\ q' = q
                 ELSE /\ pc' = "pc_scale"
                      /\ UNCHANGED <<ret, gaveUp, q>>
            ELSE /\ q' = NextQ(q, args.quality_step)
                 /\ pc' = "pc_probe"
                 /\ UNCHANGED <<ret, gaveUp>>
    /\ UNCHANGED <<work, args, seen, kont, onerr>>
    /\ UNCHANGED <<fs, scanVars, ciVars, videoVars>>

\* lines 57-61: format without a quality parameter: one encode at this size.
PC_PlainProbe ==
    /\ pc = "pc_probe"
    /\ nprobes < MaxProbes
    /\ ~_format_supports_quality(Lower(args.fmt))
    /\ \E len \in ProbeSizes :
         LET d == Buf(len, args.fmt, FALSE, 0, work) IN
         /\ data' = d
         /\ last' = d
         /\ nprobes' = nprobes + 1
         /\ probed' = probed \cup {ProbeKey(d)}
         /\ IF Fits(len)
            THEN /\ ret' = d
                 /\ gaveUp' = FALSE
                 /\ pc' = kont
            ELSE /\ pc' = "pc_scale"
                 /\ UNCHANGED <<ret, gaveUp>>
    /\ UNCHANGED <<work, args, q, seen, kont, onerr>>
    /\ UNCHANGED <<fs, scanVars, ciVars, videoVars>>

\* PC_Resize with a seeded fault: q carried over into the next pass
PC_Resize_KeepsQ ==
    /\ pc = "pc_scale"
    /\ ~ScaleFloor(work)
    /\ work' = NewSize(work)
    /\ seen' = seen \cup {work}
    /\ pc' = "pc_probe"
    /\ UNCHANGED <<args, q, data, ret, gaveUp, last, nprobes, probed, kont, onerr>>
    /\ UNCHANGED <<fs, scanVars, ciVars, videoVars>>

\* lines 65-67, 74: the buffer can still shrink: resize, back to the loop top
\* (line 49 resets q for a quality format).
PC_Resize ==
    /\ pc = "pc_scale"
    /\ ~ScaleFloor(work)
    /\ work' = NewSize(work)
    /\ seen' = seen \cup {work}
    /\ q' = IF _format_supports_quality(Lower(args.fmt))
            THEN args.initial_quality ELSE q
    /\ pc' = "pc_probe"
    /\ UNCHANGED <<args, data, ret, gaveUp, last, nprobes, probed, kont, onerr>>
    /\ UNCHANGED <<fs, scanVars, ciVars, videoVars>>

\* lines 67-73: cannot shrink further: one more encode, returned as it is.
PC_GiveUp ==
    /\ pc = "pc_scale"
    /\ ScaleFloor(work)
    /\ nprobes < MaxProbes
    /\ \E len \in ProbeSizes :
         LET hasq == _format_supports_quality(Lower(args.fmt))
             gq == IF hasq THEN GiveUpQ(args.min_quality) ELSE q
             d == Buf(len, args.fmt, hasq, IF hasq THEN gq ELSE 0, work) IN
         /\ q' = gq
         /\ last' = d
         /\ nprobes' = nprobes + 1
         /\ probed' = probed \cup {ProbeKey(d)}
         /\ ret' = d
         /\ gaveUp' = TRUE
         /\ pc' = kont
    /\ UNCHANGED <<work, args, data, seen, kont, onerr>>
    /\ UNCHANGED <<fs, scanVars, ciVars, videoVars>>

\* The frame of _progressive_compress, or the alpha-branch locals of
\* compress_image, after an exception has unwound them.
Unwound ==
    /\ work' = NoSize
    /\ seen' = {}
    /\ args' = NoArgs
    /\ q' = 0
    /\ data' = NoBuf
    /\ ret' = NoBuf
    /\ gaveUp' = FALSE
    /\ last' = NoBuf
    /\ nprobes' = 0
    /\ probed' = {}
    /\ kont' = "none"

\* img.save raises inside _try_save_to_bytes (lines 51, 59, 71, 73): the
\* exception leaves _progressive_compress and lands in the enclosing handler.
PC_EncodeFails ==
    /\ pc \in {"pc_probe", "pc_scale"}
    /\ pc = "pc_scale" => ScaleFloor(work)
    /\ nprobes < MaxProbes
    /\ pc' = onerr
    /\ Unwound
    /\ UNCHANGED onerr
    /\ UNCHANGED <<fs, scanVars, ciVars, videoVars>>

NextPC ==
    \/ PC_QualityProbe
    \/ PC_PlainProbe
    \/ PC_Resize
    \/ PC_GiveUp
    \/ PC_EncodeFails

----------------------------------------------------------------------------
(* Paths and storage *)

\* os.path.splitext(p)[0] and [1] (suffixes are lower case throughout)
Stem(p) == IF Len(p) > 1 THEN SubSeq(p, 1, Len(p) - 1) ELSE p
Ext(p) == IF Len(p) > 1 THEN p[Len(p)] ELSE ""

\* os.path.splitext(p)[0] + e
WithExt(p, e) == Append(Stem(p), e)

Exists(p) == p \in DOMAIN fs

\* storage after path p has been given content c
Put(f, p, c) == [x \in DOMAIN f \cup {p} |-> IF x = p THEN c ELSE f[x]]

\* storage after path p has been unlinked
Del(f, p) == [x \in DOMAIN f \ {p} |-> f[x]]

\* os.path.getsize(p)
GetSize(p) == fs[p].len

\* what open(p, "wb") leaves before anything is written: an empty file
Truncated(src) == File("partial", src, 0, "", 0)

\* the file that holds exactly the bytes of buffer b, written while
\* compressing src
Written(src, b) == File("enc", src, b.len, b.fmt, 0)

----------------------------------------------------------------------------
(* zip.py: compress_image *)

\* A call _progressive_compress(image, fmt, initial_quality=95,
\* min_quality=MIN_QUALITY, quality_step=QUALITY_STEP, ...): lines 42-49.
CallPC(size, fmt, k) ==
    /\ work' = size
    /\ seen' = {}
    /\ args' = [fmt |-> fmt, initial_quality |-> INITIAL_QUALITY,
                min_quality |-> MIN_QUALITY, quality_step |-> QUALITY_STEP]
    /\ q' = IF _format_supports_quality(Lower(fmt)) THEN INITIAL_QUALITY ELSE 0
    /\ data' = NoBuf
    /\ ret' = NoBuf
    /\ gaveUp' = FALSE
    /\ nprobes' = 0
    /\ probed' = {}
    /\ kont' = k
    /\ pc' = "pc_probe"

ImgSizes == (1..MaxSide) \X (1..MaxSide)

\* img.format of a file no branch recognises (None reads as "PNG", line 190)
DetectedFormats == {"PNG", "BMP", "JPEG"}

\* lines 80-88: Image.open, exif_transpose, splitext. The pixels are not part
\* of the model: the decoded size, alpha and format are any the file may hold
\* (alpha is read for .png only, format for unrecognised suffixes only).
CI_Open ==
    /\ pc = "ci_open"
    /\ \/ /\ Exists(file_path)
          /\ fs[file_path].kind # "partial"
          /\ \E size \in ImgSizes,
                a \in IF Ext(file_path) = ".png" THEN BOOLEAN ELSE {FALSE},
                f \in IF Ext(file_path) \in {".jpg", ".jpeg"} THEN {"JPEG"}
                      ELSE IF Ext(file_path) = ".png" THEN {"PNG"}
                      ELSE IF Ext(file_path) = ".webp" THEN {"WEBP"}
                      ELSE DetectedFormats :
                img' = [size |-> size, alpha |-> a, format |-> f]
          /\ pc' = "ci_dispatch"
       \/ \* Image.open raises: missing, truncated or undecodable file
          /\ img' = img
          /\ pc' = "ci_except"
    /\ onerr' = "ci_except"
    /\ UNCHANGED <<work, args, q, data, ret, gaveUp, last, seen, nprobes, probed,
                   kont>>
    /\ UNCHANGED <<file_path, ci_data, out_path, rm_orig, allow_webp, ci_kont>>
    /\ UNCHANGED <<fs, scanVars, videoVars>>

\* lines 90-101: .jpg / .jpeg: JPEG compressor, result written in place
CI_Jpeg ==
    /\ pc = "ci_dispatch"
    /\ Ext(file_path) \in {".jpg", ".jpeg"}
    /\ CallPC(img.size, "JPEG", "ci_write_ret")
    /\ out_path' = file_path
    /\ rm_orig' = FALSE
    /\ UNCHANGED <<last, onerr>>
    /\ UNCHANGED <<file_path, img, ci_data, allow_webp, ci_kont>>
    /\ UNCHANGED <<fs, scanVars, videoVars>>

\* lines 106-115: .png with alpha: work = img.copy(); one lossless PNG encode
\* at full size, written in place when it fits.
CI_AlphaFirst ==
    /\ pc = "ci_dispatch"
    /\ Ext(file_path) = ".png"
    /\ img.alpha
    /\ work' = img.size
    /\ seen' = {}
    /\ \E len \in ProbeSizes :
         LET d == Buf(len, "PNG", FALSE, 0, img.size) IN
         /\ ci_data' = d
         /\ last' = d
         /\ IF Fits(len)
            THEN /\ out_path' = file_path
                 /\ rm_orig' = FALSE
                 /\ pc' = "ci_write"
            ELSE /\ pc' = "ci_alpha_loop"
                 /\ UNCHANGED <<out_path, rm_orig>>
    /\ UNCHANGED <<args, q, data, ret, gaveUp, nprobes, probed, kont, onerr>>
    /\ UNCHANGED <<file_path, img, allow_webp, ci_kont>>
    /\ UNCHANGED <<fs, scanVars, videoVars>>

\* lines 118-128: one round of the scale-only loop: resize, lossless encode,
\* written in place when it fits.
CI_AlphaScale ==
    /\ pc = "ci_alpha_loop"
    /\ ~ScaleFloor(work)
    /\ work' = NewSize(work)
    /\ seen' = seen \cup {work}
    /\ \E len \in ProbeSizes :
         LET d == Buf(len, "PNG", FALSE, 0, NewSize(work)) IN
         /\ ci_data' = d
         /\ last' = d
         /\ IF Fits(len)
            THEN /\ out_path' = file_path
                 /\ rm_orig' = FALSE
                 /\ pc' = "ci_write"
            ELSE /\ pc' = "ci_alpha_loop"
                 /\ UNCHANGED <<out_path, rm_orig>>
    /\ UNCHANGED <<args, q, data, ret, gaveUp, nprobes, probed, kont, onerr>>
    /\ UNCHANGED <<file_path, img, allow_webp, ci_kont>>
    /\ UNCHANGED <<fs, scanVars, videoVars>>

\* CI_AlphaToWebp with a seeded fault: the scale-only rounds skipped
CI_AlphaToWebp_Early ==
    /\ pc = "ci_alpha_loop"
    /\ allow_webp
    /\ CallPC(img.size, "WEBP", "ci_write_ret")
    /\ out_path' = WithExt(file_path, ".webp")
    /\ rm_orig' = TRUE
    /\ UNCHANGED <<last, onerr>>
    /\ UNCHANGED <<file_path, img, ci_data, allow_webp, ci_kont>>
    /\ UNCHANGED <<fs, scanVars, videoVars>>

\* lines 121-122, 131-142: the loop cannot shrink further and conversion is
\* allowed: WebP compressor on the original img, to be written to base.webp,
\* the .png removed afterwards.
CI_AlphaToWebp ==
    /\ pc = "ci_alpha_loop"
    /\ ScaleFloor(work)
    /\ allow_webp
    /\ CallPC(img.size, "WEBP", "ci_write_ret")
    /\ out_path' = WithExt(file_path, ".webp")
    /\ rm_orig' = TRUE
    /\ UNCHANGED <<last, onerr>>
    /\ UNCHANGED <<file_path, img, ci_data, allow_webp, ci_kont>>
    /\ UNCHANGED <<fs, scanVars, videoVars>>

\* lines 121-122, 149-153: conversion not allowed: the last PNG data is
\* written in place.
CI_AlphaKeepPng ==
    /\ pc = "ci_alpha_loop"
    /\ ScaleFloor(work)
    /\ ~allow_webp
    /\ out_path' = file_path
    /\ rm_orig' = FALSE
    /\ pc' = "ci_write"
    /\ UNCHANGED pcVars
    /\ UNCHANGED <<file_path, img, ci_data, allow_webp, ci_kont>>
    /\ UNCHANGED <<fs, scanVars, videoVars>>

\* _try_save_to_bytes raises in the alpha branch (lines 111, 124)
CI_AlphaEncodeFails ==
    /\ \/ pc = "ci_dispatch" /\ Ext(file_path) = ".png" /\ img.alpha
       \/ pc = "ci_alpha_loop" /\ ~ScaleFloor(work)
    /\ pc' = onerr
    /\ Unwound
    /\ ci_data' = NoBuf
    /\ UNCHANGED onerr
    /\ UNCHANGED <<file_path, img, out_path, rm_orig, allow_webp, ci_kont>>
    /\ UNCHANGED <<fs, scanVars, videoVars>>

\* lines 154-166: .png without alpha: JPEG compressor, to be written to
\* base.jpg, the .png removed afterwards.
CI_PngOpaque ==
    /\ pc = "ci_dispatch"
    /\ Ext(file_path) = ".png"
    /\ ~img.alpha
    /\ CallPC(img.size, "JPEG", "ci_write_ret")
    /\ out_path' = WithExt(file_path, ".jpg")
    /\ rm_orig' = TRUE
    /\ UNCHANGED <<last, onerr>>
    /\ UNCHANGED <<file_path, img, ci_data, allow_webp, ci_kont>>
    /\ UNCHANGED <<fs, scanVars, videoVars>>

\* lines 173-183: .webp: WebP compressor, result written in place
CI_Webp ==
    /\ pc = "ci_dispatch"
    /\ Ext(file_path) = ".webp"
    /\ CallPC(img.size, "WEBP", "ci_write_ret")
    /\ out_path' = file_path
    /\ rm_orig' = FALSE
    /\ UNCHANGED <<last, onerr>>
    /\ UNCHANGED <<file_path, img, ci_data, allow_webp, ci_kont>>
    /\ UNCHANGED <<fs, scanVars, videoVars>>

\* lines 188-199: any other suffix: inner try, compressor in the detected
\* format, result written in place.
CI_Other ==
    /\ pc = "ci_dispatch"
    /\ Ext(file_path) \notin {".jpg", ".jpeg", ".png", ".webp"}
    /\ CallPC(img.size, img.format, "ci_write_ret")
    /\ onerr' = "ci_fallback"
    /\ out_path' = file_path
    /\ rm_orig' = FALSE
    /\ UNCHANGED last
    /\ UNCHANGED <<file_path, img, ci_data, allow_webp, ci_kont>>
    /\ UNCHANGED <<fs, scanVars, videoVars>>

\* lines 202-213: the inner try raised: JPEG compressor, to be written to
\* base.jpg, file_path kept. An exception from here lands in the outer handler.
CI_Fallback ==
    /\ pc = "ci_fallback"
    /\ CallPC(img.size, "JPEG", "ci_write_ret")
    /\ onerr' = "ci_except"
    /\ out_path' = WithExt(file_path, ".jpg")
    /\ rm_orig' = FALSE
    /\ UNCHANGED last
    /\ UNCHANGED <<file_path, img, ci_data, allow_webp, ci_kont>>
    /\ UNCHANGED <<fs, scanVars, videoVars>>

\* open(out_path, "wb") (lines 102, 113, 126, 143, 151, 167, 184, 200, 214):
\* the path exists and is empty from here on. Reached from a compressor
\* return, `data` is the value returned.
CI_WriteOpen ==
    /\ pc \in {"ci_write", "ci_write_ret"}
    /\ ci_data' = IF pc = "ci_write_ret" THEN ret ELSE ci_data
    /\ fs' = Put(fs, out_path, Truncated(file_path))
    /\ pc' = "ci_writing"
    /\ UNCHANGED pcVars
    /\ UNCHANGED <<file_path, img, out_path, rm_orig, allow_webp, ci_kont>>
    /\ UNCHANGED <<scanVars, videoVars>>

\* f.write(data) and the close of the with block
CI_WriteData ==
    /\ pc = "ci_writing"
    /\ fs' = Put(fs, out_path, Written(file_path, ci_data))
    /\ pc' = IF rm_orig THEN "ci_remove" ELSE "ci_ret"
    /\ UNCHANGED pcVars
    /\ UNCHANGED <<scanVars, ciVars, videoVars>>

\* f.write raises (disk full, I/O error): the file stays as open left it
CI_WriteFails ==
    /\ pc = "ci_writing"
    /\ pc' = onerr
    /\ Unwound
    /\ ci_data' = NoBuf
    /\ UNCHANGED onerr
    /\ UNCHANGED <<file_path, img, out_path, rm_orig, allow_webp, ci_kont>>
    /\ UNCHANGED <<fs, scanVars, videoVars>>

\* CI_Remove with a seeded fault: the os.remove call commented out
CI_Remove_Skipped ==
    /\ pc = "ci_remove"
    /\ pc' = "ci_ret"
    /\ UNCHANGED pcVars
    /\ UNCHANGED <<fs, scanVars, ciVars, videoVars>>

\* os.remove(file_path) (lines 146, 169)
CI_Remove ==
    /\ pc = "ci_remove"
    /\ fs' = Del(fs, file_path)
    /\ pc' = "ci_ret"
    /\ UNCHANGED pcVars
    /\ UNCHANGED <<scanVars, ciVars, videoVars>>

\* compress_image returns to its caller, normally or from the outer handler
\* (lines 218-219, which only print); its locals are gone.
CI_Return ==
    /\ pc \in {"ci_ret", "ci_except"}
    /\ pc' = ci_kont
    /\ file_path' = NoPath
    /\ img' = NoImg
    /\ ci_data' = NoBuf
    /\ out_path' = NoPath
    /\ rm_orig' = FALSE
    /\ work' = NoSize
    /\ seen' = {}
    /\ args' = NoArgs
    /\ q' = 0
    /\ data' = NoBuf
    /\ ret' = NoBuf
    /\ gaveUp' = FALSE
    /\ last' = NoBuf
    /\ nprobes' = 0
    /\ probed' = {}
    /\ kont' = "none"
    /\ onerr' = "none"
    /\ UNCHANGED <<allow_webp, ci_kont>>
    /\ UNCHANGED <<fs, scanVars, videoVars>>

----------------------------------------------------------------------------
(* zip.py: process_folder *)

ImageExts == {".jpg", ".jpeg", ".png", ".webp"}

\* line 223: os.walk lists the directory once; the order of `files` is the
\* file system's, so any.
PF_Walk ==
    /\ pc = "pf_walk"
    /\ todo' = DOMAIN fs
    /\ pc' = "pf_next"
    /\ UNCHANGED <<fs, skipped, pcVars, ciVars, videoVars>>

\* lines 224-234: the next listed file: suffix filter, getsize (a vanished
\* file is skipped), and compress_image when it is over budget.
PF_Visit ==
    /\ pc = "pf_next"
    /\ \E f \in todo :
         /\ todo' = todo \ {f}
         /\ IF Ext(f) \in ImageExts /\ Exists(f) /\ GetSize(f) > TARGET_SIZE
            THEN /\ file_path' = f
                 /\ ci_kont' = "pf_report"
                 /\ pc' = "ci_open"
                 /\ UNCHANGED skipped
            ELSE /\ skipped' = IF Ext(f) \in ImageExts /\ Exists(f)
                               THEN Put(skipped, f, fs[f]) ELSE skipped
                 /\ pc' = "pf_next"
                 /\ UNCHANGED <<file_path, ci_kont>>
    /\ UNCHANGED <<img, ci_data, out_path, rm_orig, allow_webp>>
    /\ UNCHANGED <<fs, pcVars, videoVars>>

\* lines 236-248: look for the result among the candidate paths and print it
PF_Report ==
    /\ pc = "pf_report"
    /\ pc' = "pf_next"
    /\ UNCHANGED <<fs, scanVars, pcVars, ciVars, videoVars>>

\* the listing is exhausted: process_folder returns
PF_Done ==
    /\ pc = "pf_next"
    /\ todo = {}
    /\ pc' = "halt"
    /\ UNCHANGED <<fs, scanVars, pcVars, ciVars, videoVars>>

\* the process is killed (power loss, SIGKILL) while it runs: its memory is
\* gone, storage stays as it is
Crash ==
    /\ pc \notin {"halt", "crashed", "sc_raised", "pc_returned", "pc_raised"}
    /\ pc' = "crashed"
    /\ todo' = {}
    /\ img' = NoImg
    /\ ci_data' = NoBuf
    /\ work' = NoSize
    /\ seen' = {}
    /\ args' = NoArgs
    /\ q' = 0
    /\ data' = NoBuf
    /\ ret' = NoBuf
    /\ gaveUp' = FALSE
    /\ last' = NoBuf
    /\ nprobes' = 0
    /\ probed' = {}
    /\ kont' = "none"
    /\ onerr' = "none"
    /\ crf' = 0
    /\ quality' = 0
    /\ nenc' = 0
    /\ enc_failed' = FALSE
    /\ UNCHANGED <<fs, skipped, file_path, out_path, rm_orig, allow_webp, ci_kont>>

NextZip ==
    \/ PC_QualityProbe
    \/ PC_PlainProbe
    \/ PC_Resize
    \/ PC_GiveUp
    \/ PC_EncodeFails
    \/ CI_Open
    \/ CI_Jpeg
    \/ CI_AlphaFirst
    \/ CI_AlphaScale
    \/ CI_AlphaToWebp
    \/ CI_AlphaKeepPng
    \/ CI_AlphaEncodeFails
    \/ CI_PngOpaque
    \/ CI_Webp
    \/ CI_Other
    \/ CI_Fallback
    \/ CI_WriteOpen
    \/ CI_WriteData
    \/ CI_WriteFails
    \/ CI_Remove
    \/ CI_Return
    \/ PF_Walk
    \/ PF_Visit
    \/ PF_Report
    \/ PF_Done
    \/ Crash

----------------------------------------------------------------------------
(* zip_video.py *)

\* file_path + ".tmp.mp4", file_path + ".tmp.gif"
TmpPath(p, e) == p \o <<".tmp", e>>

\* crf += 2
NextCrf(c) == c + CRF_STEP

\* quality -= 10
NextGifQuality(x) == x - GIF_QUALITY_STEP

\* os.path.getsize(tmp_path) <= TARGET_SIZE or crf >= 40
VideoStops(len, c) == len <= TARGET_SIZE_V \/ c >= CRF_CAP

\* GifStops with a seeded fault: the floor test strict
GifStops_Late(len, x) == len <= TARGET_SIZE_V \/ x < GIF_QUALITY_FLOOR

\* os.path.getsize(tmp_path) <= TARGET_SIZE or quality <= 10
GifStops(len, x) == len <= TARGET_SIZE_V \/ x <= GIF_QUALITY_FLOOR

\* os.replace(src, dst)
Replace(f, src, dst) == Put(Del(f, src), dst, f[src])

\* lines 13-17: one ffmpeg run. subprocess.run is called without check=True,
\* so a failed run returns like a successful one. A run that succeeds leaves
\* its complete output at tmp_path (-y overwrites); a run that fails leaves
\* tmp_path as it was (failure before the output is opened) or half written.
CV_Encode ==
    /\ pc = "cv_encode"
    /\ LET tmp == TmpPath(file_path, ".mp4") IN
       \/ \E len \in VideoSizes :
            /\ fs' = Put(fs, tmp, File("enc", file_path, len, "mp4", crf))
            /\ UNCHANGED enc_failed
       \/ /\ enc_failed' = TRUE
          /\ \/ fs' = fs
             \/ \E len \in PartialSizes :
                  fs' = Put(fs, tmp, File("partial", file_path, len, "mp4", crf))
    /\ nenc' = nenc + 1
    /\ pc' = "cv_check"
    /\ UNCHANGED <<crf, quality, file_path>>
    /\ UNCHANGED <<img, ci_data, out_path, rm_orig, allow_webp, ci_kont>>
    /\ UNCHANGED <<scanVars, pcVars>>

\* lines 19-22: the size test passes: os.replace(tmp_path, file_path), print,
\* break; compress_video returns.
CV_Replace ==
    /\ pc = "cv_check"
    /\ Exists(TmpPath(file_path, ".mp4"))
    /\ VideoStops(GetSize(TmpPath(file_path, ".mp4")), crf)
    /\ fs' = Replace(fs, TmpPath(file_path, ".mp4"), file_path)
    /\ pc' = "sc_next"
    /\ UNCHANGED <<scanVars, pcVars, ciVars, videoVars>>

\* lines 19, 23-24: over budget below the cap: crf += 2, next round
CV_Retry ==
    /\ pc = "cv_check"
    /\ Exists(TmpPath(file_path, ".mp4"))
    /\ ~VideoStops(GetSize(TmpPath(file_path, ".mp4")), crf)
    /\ crf' = NextCrf(crf)
    /\ pc' = "cv_encode"
    /\ UNCHANGED <<quality, nenc, enc_failed>>
    /\ UNCHANGED <<fs, scanVars, pcVars, ciVars>>

\* line 19: os.path.getsize(tmp_path) raises FileNotFoundError; nothing
\* catches it in compress_video or scan_and_compress.
CV_SizeRaises ==
    /\ pc = "cv_check"
    /\ ~Exists(TmpPath(file_path, ".mp4"))
    /\ pc' = "sc_raised"
    /\ UNCHANGED <<fs, scanVars, pcVars, ciVars, videoVars>>

\* lines 31-32: Image.open(file_path) and im.save(tmp_path, ...). A failed
\* open leaves storage alone; a failed save leaves tmp_path half written, or
\* (Pillow removes a file it created itself) no tmp_path. The exception is
\* caught nowhere.
CG_Encode ==
    /\ pc = "cg_encode"
    /\ LET tmp == TmpPath(file_path, ".gif") IN
       \/ \E len \in VideoSizes :
            /\ fs' = Put(fs, tmp, File("enc", file_path, len, "gif", quality))
            /\ pc' = "cg_check"
            /\ UNCHANGED enc_failed
       \/ /\ enc_failed' = TRUE
          /\ pc' = "sc_raised"
          /\ \/ fs' = fs
             \/ \E len \in PartialSizes :
                  fs' = Put(fs, tmp, File("partial", file_path, len, "gif", quality))
    /\ nenc' = nenc + 1
    /\ UNCHANGED <<crf, quality, file_path>>
    /\ UNCHANGED <<img, ci_data, out_path, rm_orig, allow_webp, ci_kont>>
    /\ UNCHANGED <<scanVars, pcVars>>

\* lines 34-37: the size test passes: os.replace(tmp_path, file_path)
CG_Replace ==
    /\ pc = "cg_check"
    /\ GifStops(GetSize(TmpPath(file_path, ".gif")), quality)
    /\ fs' = Replace(fs, TmpPath(file_path, ".gif"), file_path)
    /\ pc' = "sc_next"
    /\ UNCHANGED <<scanVars, pcVars, ciVars, videoVars>>

\* lines 34, 38-39: over budget above the floor: quality -= 10, next round
CG_Retry ==
    /\ pc = "cg_check"
    /\ ~GifStops(GetSize(TmpPath(file_path, ".gif")), quality)
    /\ quality' = NextGifQuality(quality)
    /\ pc' = "cg_encode"
    /\ UNCHANGED <<crf, nenc, enc_failed>>
    /\ UNCHANGED <<fs, scanVars, pcVars, ciVars>>

\* line 43: os.walk lists the directory once, in the file system's order
SC_Walk ==
    /\ pc = "sc_walk"
    /\ todo' = DOMAIN fs
    /\ pc' = "sc_next"
    /\ UNCHANGED <<fs, skipped, pcVars, ciVars, videoVars>>

\* lines 44-53 (and 10-11, 28-29): the next listed file: suffix test, an
\* unguarded getsize, and compress_video / compress_gif when over budget.
SC_Visit ==
    /\ pc = "sc_next"
    /\ \E f \in todo :
         /\ todo' = todo \ {f}
         /\ IF Ext(f) \notin {".mp4", ".gif"}
            THEN /\ pc' = "sc_next"
                 /\ UNCHANGED <<skipped, file_path, crf, quality, nenc, enc_failed>>
            ELSE IF ~Exists(f)
            THEN /\ pc' = "sc_raised"
                 /\ UNCHANGED <<skipped, file_path, crf, quality, nenc, enc_failed>>
            ELSE IF GetSize(f) > TARGET_SIZE_V
            THEN /\ file_path' = f
                 /\ nenc' = 0
                 /\ enc_failed' = FALSE
                 /\ crf' = IF Ext(f) = ".mp4" THEN CRF_START ELSE 0
                 /\ quality' = IF Ext(f) = ".gif" THEN GIF_QUALITY_START ELSE 0
                 /\ pc' = IF Ext(f) = ".mp4" THEN "cv_encode" ELSE "cg_encode"
                 /\ UNCHANGED skipped
            ELSE /\ skipped' = Put(skipped, f, fs[f])
                 /\ pc' = "sc_next"
                 /\ UNCHANGED <<file_path, crf, quality, nenc, enc_failed>>
    /\ UNCHANGED <<img, ci_data, out_path, rm_orig, allow_webp, ci_kont>>
    /\ UNCHANGED <<fs, pcVars>>

\* the listing is exhausted: scan_and_compress returns
SC_Done ==
    /\ pc = "sc_next"
    /\ todo = {}
    /\ pc' = "halt"
    /\ UNCHANGED <<fs, scanVars, pcVars, ciVars, videoVars>>

NextVideo ==
    \/ CV_Encode
    \/ CV_Replace
    \/ CV_Retry
    \/ CV_SizeRaises
    \/ CG_Encode
    \/ CG_Replace
    \/ CG_Retry
    \/ SC_Walk
    \/ SC_Visit
    \/ SC_Done
    \/ Crash

----------------------------------------------------------------------------
(* One call of _progressive_compress with arbitrary arguments *)

Formats == {"JPEG", "PNG"}
InitialQualities == {95, 30}
MinQualities == {20, 5}
QualitySteps == {5, 10}

InitIdle ==
    /\ fs = <<>>
    /\ todo = {}
    /\ skipped = <<>>
    /\ file_path = NoPath
    /\ img = NoImg
    /\ ci_kont = "halt"
    /\ ci_data = NoBuf
    /\ out_path = NoPath
    /\ rm_orig = FALSE
    /\ allow_webp = TRUE
    /\ crf = 0
    /\ quality = 0
    /\ nenc = 0
    /\ enc_failed = FALSE

\* lines 42-44, 49: work = img.copy(); the first ramp starts at initial_quality
InitPC ==
    /\ InitIdle
    /\ \E w \in 1..MaxW, h \in 1..MaxH, f \in Formats,
          iq \in InitialQualities, mq \in MinQualities, st \in QualitySteps :
         /\ work = <<w, h>>
         /\ args = [fmt |-> f, initial_quality |-> iq, min_quality |-> mq,
                    quality_step |-> st]
         /\ q = IF _format_supports_quality(Lower(f)) THEN iq ELSE 0
    /\ data = NoBuf
    /\ ret = NoBuf
    /\ gaveUp = FALSE
    /\ last = NoBuf
    /\ seen = {}
    /\ nprobes = 0
    /\ probed = {}
    /\ kont = "pc_returned"
    /\ onerr = "pc_raised"
    /\ pc = "pc_probe"

SpecPC == InitPC /\ [][NextPC]_vars

\* A sequential run keeps executing while it has a next statement.
FairSpecPC == SpecPC /\ WF_vars(NextPC)

----------------------------------------------------------------------------
(* zip.py as a program: process_folder("."), or compress_image(path) *)

ZipNames ==
    {<<"a", ".jpg">>, <<"a", ".png">>, <<"a", ".webp">>, <<"a", ".bmp">>}

\* The directory holds 1..MaxFiles files, each within or over budget.
InitStorage(names, sizes) ==
    \E S \in SUBSET names :
       /\ Cardinality(S) \in 1..MaxFiles
       /\ \E lens \in [S -> sizes] :
            fs = [p \in S |-> OrigFile(p, lens[p])]

InitZip ==
    /\ InitStorage(ZipNames, ProbeSizes)
    /\ todo = {}
    /\ skipped = <<>>
    /\ img = NoImg
    /\ ci_data = NoBuf
    /\ out_path = NoPath
    /\ rm_orig = FALSE
    /\ allow_webp \in BOOLEAN
    /\ work = NoSize
    /\ seen = {}
    /\ nprobes = 0
    /\ probed = {}
    /\ args = NoArgs
    /\ q = 0
    /\ data = NoBuf
    /\ ret = NoBuf
    /\ gaveUp = FALSE
    /\ last = NoBuf
    /\ kont = "none"
    /\ onerr = "none"
    /\ crf = 0
    /\ quality = 0
    /\ nenc = 0
    /\ enc_failed = FALSE
    /\ \/ /\ pc = "pf_walk"
          /\ file_path = NoPath
          /\ ci_kont = "halt"
       \/ /\ pc = "ci_open"
          /\ file_path \in DOMAIN fs
          /\ ci_kont = "halt"

SpecZip == InitZip /\ [][NextZip]_vars

----------------------------------------------------------------------------
(* zip_video.py as a program: scan_and_compress(".") *)

\* a video, a gif, and a file a former, interrupted run left behind
VideoNames ==
    {<<"v", ".mp4">>, <<"g", ".gif">>, <<"v", ".mp4", ".tmp", ".mp4">>}

InitVideo ==
    /\ InitStorage(VideoNames, VideoSizes)
    /\ todo = {}
    /\ skipped = <<>>
    /\ file_path = NoPath
    /\ img = NoImg
    /\ ci_data = NoBuf
    /\ out_path = NoPath
    /\ rm_orig = FALSE
    /\ allow_webp = TRUE
    /\ ci_kont = "none"
    /\ work = NoSize
    /\ seen = {}
    /\ nprobes = 0
    /\ probed = {}
    /\ args = NoArgs
    /\ q = 0
    /\ data = NoBuf
    /\ ret = NoBuf
    /\ gaveUp = FALSE
    /\ last = NoBuf
    /\ kont = "none"
    /\ onerr = "none"
    /\ crf = 0
    /\ quality = 0
    /\ nenc = 0
    /\ enc_failed = FALSE
    /\ pc = "sc_walk"

SpecVideo == InitVideo /\ [][NextVideo]_vars

\* Both resize loops of zip.py: the runs of SpecPC and of SpecZip together.
SpecResize == (InitPC \/ InitZip) /\ [][NextZip]_vars

----------------------------------------------------------------------------
(* Claims *)

\* C1: a run of _progressive_compress in which no probe fails terminates and
\* returns a byte buffer: every run ends in the handler of a failed probe or
\* at the return with a buffer in hand (checked under FairSpecPC).
C1_Terminates ==
    <>(pc = "pc_raised" \/ (pc = "pc_returned" /\ ret # NoBuf /\ ret = last))

\* C1 witness: a run that went through three resizes before giving up
C1_Witness == pc = "pc_returned" /\ gaveUp /\ Cardinality(seen) >= 3

\* C2: a probe of at most TARGET_SIZE bytes ends the run at once with that
\* probe as the result, and a result over TARGET_SIZE comes from the give-up
\* branch only, with the scale floor reached.
C2_OverBudgetOnlyAtScaleFloor ==
    /\ (data # NoBuf /\ data.len <= TARGET_SIZE)
          => (pc = "pc_returned" /\ ret = data /\ ~gaveUp)
    /\ (pc = "pc_returned" /\ ret.len > TARGET_SIZE)
          => (gaveUp /\ ScaleFloor(work) /\ ret.size = work)

\* C2 witness: an over-budget result returned after two resizes
C2_Witness ==
    pc = "pc_returned" /\ ret.len > TARGET_SIZE /\ Cardinality(seen) >= 2

\* C3 (as claimed): every quality passed to the encoder, in the ramp and in
\* the give-up re-probe, is at least min_quality.
C3_QualityNeverBelowFloor == last.hasq => last.q >= args.min_quality

\* C4: the working buffer never has an axis below 1, never takes a size it
\* had before, and every earlier size is at least the current one on both
\* axes (checked under SpecResize: _progressive_compress and the alpha loop).
C4_ShrinkOnly ==
    /\ work = NoSize \/ (work[1] >= 1 /\ work[2] >= 1)
    /\ work \notin seen
    /\ \A s \in seen : s[1] >= work[1] /\ s[2] >= work[2]

\* C4 witness: a buffer on its fourth size, both axes still above 1
C4_Witness == Cardinality(seen) >= 3 /\ work[1] > 1 /\ work[2] > 1

\* C5 (as claimed): after a crash at any point of a run the original path
\* holds its complete original content or a complete output, never a
\* truncated or half-written file.
C5_CrashLeavesWholeFile ==
    (pc = "crashed" /\ file_path \in DOMAIN fs)
        => fs[file_path].kind \in {"orig", "enc"}

\* C6 (as claimed): no failure on one file ends the scan while discovered
\* files are still waiting to be considered.
C6_ScanSurvivesFailure == pc = "sc_raised" => todo = {}

\* C7 (as claimed): once an encoder round has failed no further round runs,
\* and the run ends with the original file as it was and no temporary file
\* of it in storage.
C7_FailedRoundAborts ==
    /\ enc_failed => pc \notin {"cv_encode", "cg_encode"}
    /\ (enc_failed /\ pc \in {"sc_next", "sc_raised", "halt"})
          => /\ file_path \in DOMAIN fs
             /\ fs[file_path] \in {OrigFile(file_path, n) : n \in VideoSizes}
             /\ (file_path \o <<".tmp", ".mp4">>) \notin DOMAIN fs
             /\ (file_path \o <<".tmp", ".gif">>) \notin DOMAIN fs

\* C8 (as claimed): a file found within budget at scan time keeps exactly
\* the content it had then, whatever else is in the directory.
C8_WithinBudgetUntouched ==
    \A p \in DOMAIN skipped : p \in DOMAIN fs /\ fs[p] = skipped[p]

\* C9: compress_image on a .png without alpha, returning normally: base.jpg
\* holds the JPEG result of the compressor, the .png is gone, and the file is
\* within TARGET_SIZE unless the compressor gave up at the scale floor.
C9_OpaquePngToJpg ==
    (pc = "ci_ret" /\ Ext(file_path) = ".png" /\ ~img.alpha)
        => LET jpg == <<file_path[1], ".jpg">> IN
           /\ ret # NoBuf /\ ret.fmt = "JPEG" /\ ret.hasq
           /\ jpg \in DOMAIN fs
           /\ fs[jpg] = [kind |-> "enc", src |-> file_path, len |-> ret.len,
                         fmt |-> "JPEG", param |-> 0]
           /\ file_path \notin DOMAIN fs
           /\ (fs[jpg].len <= TARGET_SIZE \/ (gaveUp /\ ScaleFloor(work)))

\* C9 witness: an opaque .png converted within budget after one resize
C9_Witness ==
    /\ pc = "ci_ret" /\ Ext(file_path) = ".png" /\ ~img.alpha
    /\ ~gaveUp /\ Cardinality(seen) >= 1
    /\ <<file_path[1], ".jpg">> \in DOMAIN fs

\* C10 (as claimed): crf runs 28, 30, ..., 40 over at most 7 encodes, and a
\* finished compress_video has put the output of its last round at the
\* original path, within TARGET_SIZE or produced at crf 40.
C10_VideoResult ==
    /\ pc \in {"cv_encode", "cv_check"}
          => (crf \in {28, 30, 32, 34, 36, 38, 40} /\ nenc <= 7)
    /\ (pc \in {"sc_next", "halt"} /\ crf # 0)
          => /\ file_path \in DOMAIN fs
             /\ fs[file_path].kind = "enc"
             /\ fs[file_path].src = file_path
             /\ fs[file_path].param = crf
             /\ (fs[file_path].len <= TARGET_SIZE_V \/ crf = 40)

\* C11 (as claimed): when compress_image on a file of an unrecognised suffix
\* has taken the JPEG fallback and returns, the result is at base.jpg, a path
\* other than the input, and the input still holds its original content.
C11_FallbackKeepsOriginal ==
    (pc = "ci_ret" /\ Ext(file_path) \notin ImageExts /\ out_path # file_path)
        => /\ out_path = <<file_path[1], ".jpg">>
           /\ out_path \in DOMAIN fs
           /\ fs[out_path].kind = "enc" /\ fs[out_path].fmt = "JPEG"
           /\ file_path \in DOMAIN fs
           /\ fs[file_path] \in {OrigFile(file_path, n) : n \in ProbeSizes}

\* ceil(a / b) for a >= 0, b > 0
CeilDiv(a, b) == (a + b - 1) \div b

\* Resizes _progressive_compress performs on a buffer of this size before
\* the cannot-shrink test holds.
RECURSIVE StepsToFloor(_)
StepsToFloor(size) ==
    IF ScaleFloor(size) THEN 0 ELSE 1 + StepsToFloor(NewSize(size))

\* The same count for the buffer the current run started with.
RunSteps == Cardinality(seen) + StepsToFloor(work)

\* Encoder calls of one loop pass at a fixed size: the whole quality ramp,
\* or the single call of a format without a quality parameter.
RampLen ==
    IF _format_supports_quality(Lower(args.fmt))
    THEN CeilDiv(Max(args.initial_quality - args.min_quality, 0),
                 args.quality_step) + 1
    ELSE 1

\* C12 (as claimed): the encoder calls of one run never exceed
\* ceil((initial_quality - min_quality) / quality_step) times the number of
\* downscale steps needed to reach the scale floor.
C12_ProbesWithinProduct ==
    nprobes > 0 =>
        nprobes <= CeilDiv(args.initial_quality - args.min_quality,
                           args.quality_step) * RunSteps

\* C12 (amended): the encoder calls of one run never exceed the ramp length
\* ceil((initial_quality - min_quality) / quality_step) + 1 (1 for a format
\* without quality) times the number of sizes the buffer takes (downscale
\* steps + 1), plus one for the give-up re-probe.
C12_ProbesBounded ==
    nprobes > 0 => nprobes <= RampLen * (RunSteps + 1) + 1

\* C12 witness: a quality run that used the whole bound over three sizes
C12_Witness ==
    /\ pc = "pc_returned" /\ gaveUp /\ ret.hasq
    /\ Cardinality(seen) >= 2
    /\ nprobes = RampLen * (RunSteps + 1) + 1

\* A step that makes an encoder call of a quality format, not the first of
\* its run: `last` is the earlier probe and last' the later one.
NextQualityProbe == nprobes >= 1 /\ nprobes' = nprobes + 1 /\ last'.hasq

\* C13 (as claimed): of any two consecutive probes of one run the later is
\* at a quality no higher than the earlier.
C13_QualityOnlyDecreases ==
    [][NextQualityProbe => last'.q <= last.q]_vars

\* C13 (amended): of two consecutive probes on a buffer of the same size the
\* later ramp probe is at a lower quality than the earlier; the first probe
\* after a resize is back at initial_quality; the give-up re-probe is at
\* max(min_quality, 10), never below the quality the ramp ended at.
C13_QualityDecreasesPerLevel ==
    [][NextQualityProbe =>
          IF last'.size # last.size THEN last'.q = args.initial_quality
          ELSE IF gaveUp' THEN /\ last'.q = GiveUpQ(args.min_quality)
                               /\ last'.q >= last.q
          ELSE last'.q < last.q]_vars

\* C13 witness: the ramp of the second size has stepped down from its reset
C13_Witness ==
    /\ pc = "pc_probe" /\ last.hasq /\ Cardinality(seen) >= 1
    /\ last.size = work /\ last.q = args.initial_quality
    /\ q < args.initial_quality

\* C14 (as claimed): no two encoder calls of one run, the give-up re-probe
\* included, are made with the same quality (none for a format without one)
\* on a buffer of the same dimensions: the calls made so far are as many as
\* the distinct (quality, size) pairs they were made with.
C14_NoPairProbedTwice == Cardinality(probed) = nprobes

\* Qualities probed so far on a buffer of the current size
LevelQs == {k[2] : k \in {x \in probed : x[3] = work}}

\* The first n qualities of a ramp from initial_quality
Ramp(n) ==
    {args.initial_quality - i * args.quality_step : i \in 0..(n - 1)}

\* C15: for a quality format, at every point of the loop the qualities probed
\* at the current size are the first n of initial_quality, initial_quality -
\* step, ... taken in that order (n = 0 right after a resize and at the start
\* of the run, so the next probe is at initial_quality); the ramp goes on
\* only past an over-budget probe above the floor, returns at the first probe
\* within budget, and the resize test is reached only with the ramp's last
\* probe over budget at a quality at or below the floor.
C15_FreshRampPerLevel ==
    _format_supports_quality(Lower(args.fmt)) =>
        LET n == Cardinality(LevelQs)
            nth(i) == args.initial_quality - i * args.quality_step IN
        /\ pc = "pc_probe" =>
              /\ LevelQs = Ramp(n)
              /\ q = nth(n)
              /\ \A x \in LevelQs : x > args.min_quality
              /\ n > 0 => (data.len > TARGET_SIZE /\ data.q = nth(n - 1)
                             /\ data.size = work)
        /\ pc = "pc_scale" =>
              /\ n >= 1 /\ LevelQs = Ramp(n)
              /\ q = nth(n - 1) /\ q <= args.min_quality
              /\ \A x \in LevelQs \ {q} : x > args.min_quality
              /\ data.len > TARGET_SIZE /\ data.q = q /\ data.size = work
        /\ (pc = "pc_returned" /\ ~gaveUp) =>
              /\ n >= 1 /\ LevelQs = Ramp(n)
              /\ ret.q = nth(n - 1) /\ ret.len <= TARGET_SIZE
              /\ \A x \in LevelQs \ {ret.q} : x > args.min_quality

\* C15 witness: the second size has had its whole ramp, at least four
\* probes long, and is over budget still
C15_Witness ==
    /\ pc = "pc_scale" /\ _format_supports_quality(Lower(args.fmt))
    /\ Cardinality(seen) >= 1
    /\ Cardinality(LevelQs) = RampLen /\ RampLen >= 4

\* compress_image is at work on a .png that has an alpha channel
AlphaRun == file_path # NoPath /\ Ext(file_path) = ".png" /\ img.alpha

\* `data` is an over-budget lossless PNG encode
OverBudgetPng(d) == d.fmt = "PNG" /\ ~d.hasq /\ d.len > TARGET_SIZE

\* C16: compress_image on a .png with alpha. While the scale-only loop runs
\* every lossless probe so far, the full-size one first, was over budget and
\* the file is as found. A lossless PNG is written in place only if it is
\* within budget, or if it is the probe of the smallest size and conversion
\* is off. The WebP compressor runs only with conversion on and the last
\* lossless probe, at the scale floor, over budget; its result goes to
\* base.webp and only then is the .png removed.
C16_AlphaPngOrder ==
    AlphaRun =>
        LET webp == <<file_path[1], ".webp">> IN
        /\ pc = "ci_alpha_loop" =>
              /\ OverBudgetPng(ci_data) /\ ci_data.size = work
              /\ (seen = {} => work = img.size)
              /\ img.size \in seen \cup {work}
              /\ file_path \in DOMAIN fs /\ fs[file_path].kind = "orig"
        /\ pc = "ci_write" =>
              /\ out_path = file_path /\ ~rm_orig
              /\ ci_data.fmt = "PNG" /\ ~ci_data.hasq /\ ci_data.size = work
              /\ \/ ci_data.len <= TARGET_SIZE
                 \/ ~allow_webp /\ ScaleFloor(work)
              /\ fs[file_path].kind = "orig"
        /\ (pc = "ci_ret" /\ out_path = file_path) =>
              /\ fs[file_path] = [kind |-> "enc", src |-> file_path,
                                   len |-> ci_data.len, fmt |-> "PNG",
                                   param |-> 0]
              /\ \/ ci_data.len <= TARGET_SIZE
                 \/ ~allow_webp /\ ScaleFloor(ci_data.size)
        /\ pc \in {"pc_probe", "pc_scale", "ci_write_ret"} =>
              /\ allow_webp /\ args.fmt = "WEBP"
              /\ out_path = webp /\ rm_orig
              /\ OverBudgetPng(ci_data) /\ ScaleFloor(ci_data.size)
              /\ file_path \in DOMAIN fs /\ fs[file_path].kind = "orig"
        /\ (pc = "ci_remove" \/ (pc = "ci_ret" /\ out_path # file_path)) =>
              /\ allow_webp /\ out_path = webp
              /\ fs[webp] = [kind |-> "enc", src |-> file_path,
                              len |-> ret.len, fmt |-> "WEBP", param |-> 0]
              /\ (file_path \in DOMAIN fs) = (pc = "ci_remove")
        /\ file_path \notin DOMAIN fs =>
              (pc \in {"ci_ret", "ci_except"} /\ out_path = webp)

\* C16 witness: a 3x3 alpha .png, over budget at both sizes of the scale-only
\* loop, converted to base.webp and removed
C16_Witness ==
    /\ AlphaRun /\ pc = "ci_ret" /\ ~ScaleFloor(img.size)
    /\ out_path = <<file_path[1], ".webp">>
    /\ out_path \in DOMAIN fs /\ file_path \notin DOMAIN fs

\* The quality compress_gif uses in its n-th round (n = 1, 2, ...)
GifRoundQuality(n) == GIF_QUALITY_START - (n - 1) * GIF_QUALITY_STEP

\* C17: compress_gif encodes at 80, 70, ..., never below 10, at most 8 times;
\* while rounds are running the file is still the over-budget original; and
\* a finished run has put the temporary file of its last round at the
\* original path, that file being within TARGET_SIZE or made at quality 10,
\* and left no temporary file behind.
C17_GifLoop ==
    (file_path # NoPath /\ Ext(file_path) = ".gif") =>
        LET tmp == file_path \o <<".tmp", ".gif">> IN
        /\ pc = "cg_encode" =>
              /\ nenc <= 7 /\ quality = GifRoundQuality(nenc + 1)
              /\ quality >= GIF_QUALITY_FLOOR
              /\ fs[file_path] = OrigFile(file_path, TARGET_SIZE_V + 1)
        /\ pc = "cg_check" =>
              /\ nenc \in 1..8 /\ quality = GifRoundQuality(nenc)
              /\ quality >= GIF_QUALITY_FLOOR
              /\ fs[file_path] = OrigFile(file_path, TARGET_SIZE_V + 1)
              /\ fs[tmp].kind = "enc" /\ fs[tmp].param = quality
        /\ (pc \in {"sc_next", "halt"} /\ quality # 0) =>
              /\ nenc \in 1..8 /\ quality = GifRoundQuality(nenc)
              /\ fs[file_path].kind = "enc" /\ fs[file_path].src = file_path
              /\ fs[file_path].param = quality
              /\ (fs[file_path].len <= TARGET_SIZE_V
                    \/ quality = GIF_QUALITY_FLOOR)
              /\ tmp \notin DOMAIN fs

\* C17 witness: a gif over budget in all eight rounds, replaced by the last
C17_Witness ==
    /\ pc = "sc_next" /\ file_path # NoPath /\ Ext(file_path) = ".gif"
    /\ nenc = 8 /\ quality = GIF_QUALITY_FLOOR
    /\ fs[file_path].kind = "enc" /\ fs[file_path].len > TARGET_SIZE_V

\* C18 (as claimed): while compress_image runs, no step changes or removes
\* a file other than the input, except to fill the target file this run has
\* itself just created: in particular a conversion never opens a target
\* path that already holds a file.
C18_OnlyInputAndNewTarget ==
    [][file_path # NoPath =>
          \A p \in DOMAIN fs :
             (p # file_path /\ ~(p = out_path /\ pc = "ci_writing"))
                 => (p \in DOMAIN fs' /\ fs'[p] = fs[p])]_vars

====
